---------------------------- MODULE Spec2Model ----------------------------
(***************************************************************************)
(* The two scripts of the repository as one state machine over a shared    *)
(* store.                                                                  *)
(*                                                                         *)
(*   ingest_data.py            for file in os.listdir(data_dir):           *)
(*                                 if file.endswith('.csv'):               *)
(*                                     df = pd.read_csv(...)               *)
(*                                     df.to_sql('daily_reports',          *)
(*                                               if_exists='append')       *)
(*   3-correlation_analysis.py df = pd.read_sql("SELECT confirmed, deaths  *)
(*                                  FROM cleaned_data"); df.corr()         *)
(*                                                                         *)
(* A file name is the sequence of its characters, a table is a record      *)
(* [exists, rows] whose rows form a bag (SQL tables are unordered          *)
(* multisets), a row is the pair <<confirmed, deaths>>.  A correlation     *)
(* coefficient r is held exactly, as the sign of the covariance and the    *)
(* reduced fraction r^2 = num/den; NaN is its own value.                   *)
(***************************************************************************)
EXTENDS Integers, Sequences, FiniteSets, Bags, TLC

VARIABLES
    dirExists,      \* whether data_dir exists on the file system
    dir,            \* data_dir: file name -> file content
    daily_reports,  \* the table ingestion appends to
    cleaned_data,   \* the table the correlation query reads
    ipc,            \* ingestion script: "idle", "loop", "done", "failed"
    files,          \* the list os.listdir returned to the running ingestion
    idx,            \* position of the for loop in files (1-based)
    outcomes,       \* exit status of every finished ingestion run, in order
    initial,        \* history: daily_reports before the first ingestion run
    before,         \* history: daily_reports when the current run started
    reads,          \* history: names handed to pd.read_csv in the current run
    writes,         \* history: names whose rows to_sql appended in this run
    cpc,            \* correlation script: "idle", "done", "failed"
    df,             \* the rows pd.read_sql returned, in the order returned
    correlation,    \* the matrix df.corr() returned
    observed        \* history: ingestion's progress when the query ran

vars == <<dirExists, dir, daily_reports, cleaned_data, ipc, files, idx,
          outcomes, initial, before, reads, writes, cpc, df, correlation,
          observed>>

ingestVars == <<ipc, files, idx, outcomes, before, reads, writes>>
corrVars == <<cpc, df, correlation, observed>>
fsVars == <<dirExists, dir>>

-----------------------------------------------------------------------------
(* Bounds of the model *)

MaxFiles == 2       \* entries in data_dir
MaxRows == 1        \* data rows in one CSV file
MaxRuns == 2        \* executions of the ingestion script
MaxPoints == 3      \* rows of cleaned_data
MaxValue == 3       \* largest confirmed / deaths value of a cleaned_data row

-----------------------------------------------------------------------------
(* Values *)

BoundedSeq(S, n) == UNION {[1..k -> S] : k \in 0..n}

RECURSIVE SeqToBag(_)
SeqToBag(s) ==
    IF s = <<>> THEN EmptyBag
    ELSE SetToBag({Head(s)}) (+) SeqToBag(Tail(s))

\* every order in which a listing or a result set may come back
Orders(S) ==
    {f \in [1..Cardinality(S) -> S] : \A i, j \in DOMAIN f : f[i] = f[j] => i = j}

\* a string is the sequence of its characters
FileNames ==
    { <<"a", ".", "c", "s", "v">>,
      <<".", "c", "s", "v">>,
      <<"c", "s", "v">>,
      <<"a", ".", "c", "s", "v", "x">> }

CsvRows == { <<1, 2>>, <<2, 1>> }

\* a file is either text that is no table, or a header and its data rows
Unparseable == [tabular |-> FALSE, rows |-> <<>>]
Csv(rows) == [tabular |-> TRUE, rows |-> rows]

Contents == {Unparseable} \cup {Csv(r) : r \in BoundedSeq(CsvRows, MaxRows)}

Directories ==
    UNION { [names -> Contents] :
              names \in {S \in SUBSET FileNames : Cardinality(S) <= MaxFiles} }

Absent == [exists |-> FALSE, rows |-> EmptyBag]
EmptyTable == [exists |-> TRUE, rows |-> EmptyBag]
TableOf(s) == [exists |-> TRUE, rows |-> SeqToBag(s)]

-----------------------------------------------------------------------------
(* ingest_data.py *)

\* mutant: `suffix in s`, the suffix anywhere in the name
endswith_anywhere(s, suffix) ==
    \E i \in 1..Len(s) :
        /\ i + Len(suffix) - 1 <= Len(s)
        /\ SubSeq(s, i, i + Len(suffix) - 1) = suffix

\* str.endswith: the last Len(suffix) characters of s are suffix
endswith(s, suffix) ==
    /\ Len(s) >= Len(suffix)
    /\ SubSeq(s, Len(s) - Len(suffix) + 1, Len(s)) = suffix

DotCsv == <<".", "c", "s", "v">>

\* mutant: a missing directory lists as an empty one
listdir_lenient(exists, d) ==
    IF exists
    THEN [raised |-> FALSE, listings |-> Orders(DOMAIN d)]
    ELSE [raised |-> FALSE, listings |-> {<<>>}]

\* os.listdir(data_dir): the entries, in an order the platform chooses;
\* FileNotFoundError when the directory does not exist
listdir(exists, d) ==
    IF exists
    THEN [raised |-> FALSE, listings |-> Orders(DOMAIN d)]
    ELSE [raised |-> TRUE, listings |-> {<<>>}]

\* mutant: the first data row is taken for the header
read_csv_skips_first_row(content) ==
    IF content.tabular
    THEN [raised |-> FALSE,
          frame |-> IF content.rows = <<>> THEN <<>> ELSE Tail(content.rows)]
    ELSE [raised |-> TRUE, frame |-> <<>>]

\* pd.read_csv: the data rows of the file, or a parser error
read_csv(content) ==
    IF content.tabular
    THEN [raised |-> FALSE, frame |-> content.rows]
    ELSE [raised |-> TRUE, frame |-> <<>>]

\* mutant: if_exists='replace'
to_sql_replace(table, frame) ==
    [exists |-> TRUE, rows |-> SeqToBag(frame)]

\* mutant: a row already in the table is not inserted again
to_sql_dedup(table, frame) ==
    [exists |-> TRUE,
     rows |-> SetToBag(BagToSet(table.rows) \cup {frame[i] : i \in DOMAIN frame})]

\* DataFrame.to_sql(if_exists='append'): creates the table when it is
\* absent and inserts the frame's rows after whatever the table holds
to_sql(table, frame) ==
    [exists |-> TRUE, rows |-> table.rows (+) SeqToBag(frame)]

\* a write the store rejected inserts nothing; whether the CREATE TABLE
\* that preceded it survives depends on the driver's transaction
AfterRejectedWrite(table) == {table, [table EXCEPT !.exists = TRUE]}

Finished == ipc \in {"done", "failed"}

\* line 21, entered: the listing is taken once, before the first iteration
Begin ==
    /\ before' = daily_reports
    /\ reads' = <<>>
    /\ writes' = <<>>
    /\ idx' = 1
    /\ LET listed == listdir(dirExists, dir) IN
       /\ files' \in listed.listings
       /\ ipc' = IF listed.raised THEN "failed" ELSE "loop"
    /\ UNCHANGED <<daily_reports, cleaned_data, initial, fsVars, corrVars>>

\* the script is started
IngestStart ==
    /\ ipc = "idle"
    /\ UNCHANGED outcomes
    /\ Begin

\* the script has ended and is started again over the same directory
IngestRestart ==
    /\ Finished
    /\ Len(outcomes) + 1 < MaxRuns
    /\ outcomes' = Append(outcomes, IF ipc = "done" THEN "ok" ELSE "error")
    /\ Begin

\* mutant: the loop body in try/except, a failing file is skipped
IngestFileSwallowing ==
    /\ ipc = "loop"
    /\ idx <= Len(files)
    /\ idx' = idx + 1
    /\ LET file == files[idx] IN
       IF ~endswith(file, DotCsv)
       THEN UNCHANGED <<daily_reports, reads, writes>>
       ELSE LET parsed == read_csv(dir[file]) IN
            /\ reads' = Append(reads, file)
            /\ IF parsed.raised
               THEN UNCHANGED <<daily_reports, writes>>
               ELSE \/ /\ daily_reports' = to_sql(daily_reports, parsed.frame)
                       /\ writes' = Append(writes, file)
                    \/ /\ daily_reports' \in AfterRejectedWrite(daily_reports)
                       /\ UNCHANGED writes
    /\ UNCHANGED <<ipc, cleaned_data, files, outcomes, initial, before, fsVars,
                   corrVars>>

\* one iteration of the for loop
IngestFile ==
    /\ ipc = "loop"
    /\ idx <= Len(files)
    /\ LET file == files[idx] IN
       IF ~endswith(file, DotCsv)
       THEN /\ idx' = idx + 1
            /\ UNCHANGED <<ipc, daily_reports, reads, writes>>
       ELSE LET parsed == read_csv(dir[file])
                frame == parsed.frame
            IN
            /\ reads' = Append(reads, file)
            /\ IF parsed.raised
               THEN /\ ipc' = "failed"
                    /\ UNCHANGED <<idx, daily_reports, writes>>
               ELSE \/ /\ daily_reports' = to_sql(daily_reports, frame)
                       /\ writes' = Append(writes, file)
                       /\ idx' = idx + 1
                       /\ UNCHANGED ipc
                    \/ /\ daily_reports' \in AfterRejectedWrite(daily_reports)
                       /\ ipc' = "failed"
                       /\ UNCHANGED <<idx, writes>>
    /\ UNCHANGED <<cleaned_data, files, outcomes, initial, before, fsVars, corrVars>>

\* the listing is exhausted: the script ends with status 0
IngestExit ==
    /\ ipc = "loop"
    /\ idx > Len(files)
    /\ ipc' = "done"
    /\ UNCHANGED <<daily_reports, cleaned_data, files, idx, outcomes, initial,
                   before, reads, writes, fsVars, corrVars>>

-----------------------------------------------------------------------------
(* 3-correlation_analysis.py *)

Fields == {"confirmed", "deaths"}
FieldIndex(f) == IF f = "confirmed" THEN 1 ELSE 2

\* the column f of a frame
Column(frame, f) == [i \in DOMAIN frame |-> frame[i][FieldIndex(f)]]

RECURSIVE Sum(_)
Sum(x) == IF x = <<>> THEN 0 ELSE Head(x) + Sum(Tail(x))

Products(x, y) == [i \in DOMAIN x |-> x[i] * y[i]]

RECURSIVE GCD(_, _)
GCD(a, b) == IF b = 0 THEN a ELSE GCD(b, a % b)

Sign(a) == IF a > 0 THEN 1 ELSE IF a < 0 THEN -1 ELSE 0

NaN == [nan |-> TRUE, sign |-> 0, num |-> 0, den |-> 1]
One == [nan |-> FALSE, sign |-> 1, num |-> 1, den |-> 1]

\* n times the co-moment of x and y about their means: n*Sxy - Sx*Sy
CoMoment(x, y) == Len(x) * Sum(Products(x, y)) - Sum(x) * Sum(y)

\* mutant: covariance over n - 1, variances over n
pearson_mixed_ddof(x, y) ==
    LET n == Len(x)
        sxy == CoMoment(x, y)
        sxx == CoMoment(x, x)
        syy == CoMoment(y, y)
        g == GCD(sxy * sxy * n * n, sxx * syy * (n - 1) * (n - 1))
    IN  IF sxx * syy = 0 THEN NaN
        ELSE [nan |-> FALSE, sign |-> Sign(sxy),
              num |-> (sxy * sxy * n * n) \div g,
              den |-> (sxx * syy * (n - 1) * (n - 1)) \div g]

\* Pearson's r = cov(x, y) / sqrt(var(x) * var(y)), NaN when a variance is 0
\* (a constant column, a single row, no row)
pearson(x, y) ==
    LET sxy == CoMoment(x, y)
        sxx == CoMoment(x, x)
        syy == CoMoment(y, y)
        g == GCD(sxy * sxy, sxx * syy)
    IN  IF sxx * syy = 0 THEN NaN
        ELSE [nan |-> FALSE, sign |-> Sign(sxy),
              num |-> (sxy * sxy) \div g, den |-> (sxx * syy) \div g]

\* the sample covariance sxy / (n * (n - 1)), held like a coefficient
covariance(x, y) ==
    LET n == Len(x)
        sxy == CoMoment(x, y)
        d == n * (n - 1)
        g == GCD(sxy * sxy, d * d)
    IN  IF d = 0 THEN NaN
        ELSE [nan |-> FALSE, sign |-> Sign(sxy),
              num |-> (sxy * sxy) \div g, den |-> (d * d) \div g]

\* mutant: DataFrame.cov() in place of DataFrame.corr()
cov(frame) ==
    [a \in Fields |-> [b \in Fields |->
        covariance(Column(frame, a), Column(frame, b))]]

\* DataFrame.corr(): the matrix of pairwise coefficients of the columns
corr(frame) ==
    [a \in Fields |-> [b \in Fields |->
        pearson(Column(frame, a), Column(frame, b))]]

\* mutant: the query reads the table ingestion writes
QueriedDailyReports == daily_reports

\* the table the query names in its FROM clause
QueriedTable == cleaned_data

\* pd.read_sql: the table's rows, in an order the store chooses
read_sql(table) ==
    LET n == BagCardinality(table.rows) IN
    {s \in [1..n -> BagToSet(table.rows)] : SeqToBag(s) = table.rows}

\* what ingestion had done when the query ran
Progress ==
    [written |-> Len(writes),
     pending |-> IF ipc = "loop"
                 THEN Cardinality({k \in idx..Len(files) : endswith(files[k], DotCsv)})
                 ELSE 0]

\* line 16: the query; it raises when the table does not exist
Query ==
    /\ cpc = "idle"
    /\ IF QueriedTable.exists
       THEN /\ df' \in read_sql(QueriedTable)
            /\ cpc' = "queried"
       ELSE /\ df' = <<>>
            /\ cpc' = "failed"
    /\ observed' = <<Progress>>
    /\ UNCHANGED <<daily_reports, cleaned_data, correlation, initial, fsVars,
                   ingestVars>>

\* mutant: the script stores the frame it read
CorrPersisting ==
    /\ cpc = "queried"
    /\ correlation' = <<corr(df)>>
    /\ cpc' = "done"
    /\ daily_reports' = to_sql(daily_reports, df)
    /\ UNCHANGED <<cleaned_data, df, observed, initial, fsVars, ingestVars>>

\* line 17: the matrix
Corr ==
    /\ cpc = "queried"
    /\ correlation' = <<corr(df)>>
    /\ cpc' = "done"
    /\ UNCHANGED <<daily_reports, cleaned_data, df, observed, initial, fsVars,
                   ingestVars>>

-----------------------------------------------------------------------------
(* Specifications *)

InitialTables == {Absent, EmptyTable, TableOf(<<<<1, 2>>>>)}

InitIngest ==
    /\ dirExists \in BOOLEAN
    /\ dir \in (IF dirExists THEN Directories ELSE {<<>>})
    /\ daily_reports \in InitialTables
    /\ cleaned_data = Absent
    /\ ipc = "idle"
    /\ files = <<>>
    /\ idx = 1
    /\ outcomes = <<>>
    /\ initial = daily_reports
    /\ before = daily_reports
    /\ reads = <<>>
    /\ writes = <<>>
    /\ cpc = "idle"
    /\ df = <<>>
    /\ correlation = <<>>
    /\ observed = <<>>

NextIngest == IngestStart \/ IngestRestart \/ IngestFile \/ IngestExit

SpecIngest == InitIngest /\ [][NextIngest]_vars

\* the correlation script alone, over every small cleaned_data and the
\* table of the specification's example
Points == (1..MaxValue) \X (1..MaxValue)

Example == << <<1, 2>>, <<2, 4>>, <<3, 6>>, <<4, 8>> >>

CleanedTables ==
    {Absent} \cup {TableOf(s) : s \in BoundedSeq(Points, MaxPoints) \cup {Example}}

InitCorr ==
    /\ dirExists = FALSE
    /\ dir = <<>>
    /\ daily_reports = Absent
    /\ cleaned_data \in CleanedTables
    /\ ipc = "idle"
    /\ files = <<>>
    /\ idx = 1
    /\ outcomes = <<>>
    /\ initial = daily_reports
    /\ before = daily_reports
    /\ reads = <<>>
    /\ writes = <<>>
    /\ cpc = "idle"
    /\ df = <<>>
    /\ correlation = <<>>
    /\ observed = <<>>

NextCorr == Query \/ Corr

SpecCorr == InitCorr /\ [][NextCorr]_vars

\* both scripts against one store, each run once and started at any moment;
\* the files hold one row or are no tables
ProbeContents == {Unparseable, Csv(<<<<2, 1>>>>)}

ProbeDirectories == {d \in Directories : \A n \in DOMAIN d : d[n] \in ProbeContents}

CleanedAtStart == {Absent, TableOf(<<<<1, 2>>, <<2, 3>>>>)}

Init ==
    /\ dirExists \in BOOLEAN
    /\ dir \in (IF dirExists THEN ProbeDirectories ELSE {<<>>})
    /\ daily_reports = Absent
    /\ cleaned_data \in CleanedAtStart
    /\ ipc = "idle"
    /\ files = <<>>
    /\ idx = 1
    /\ outcomes = <<>>
    /\ initial = daily_reports
    /\ before = daily_reports
    /\ reads = <<>>
    /\ writes = <<>>
    /\ cpc = "idle"
    /\ df = <<>>
    /\ correlation = <<>>
    /\ observed = <<>>

Next == IngestStart \/ IngestFile \/ IngestExit \/ Query \/ Corr

Spec == Init /\ [][Next]_vars

-----------------------------------------------------------------------------
(* What the properties speak of *)

\* the name ends in ".csv", character by character
HasCsvSuffix(name) ==
    /\ Len(name) >= 4
    /\ name[Len(name) - 3] = "."
    /\ name[Len(name) - 2] = "c"
    /\ name[Len(name) - 1] = "s"
    /\ name[Len(name)] = "v"

Qualifying(names) == {n \in names : HasCsvSuffix(n)}

\* the rows of the files `names` of directory d, as a bag
RECURSIVE RowsOf(_, _)
RowsOf(d, names) ==
    IF names = {} THEN EmptyBag
    ELSE LET n == CHOOSE m \in names : TRUE IN
         SeqToBag(d[n].rows) (+) RowsOf(d, names \ {n})

\* the qualifying names among the first k entries of a listing, in order
RECURSIVE QualifyingPrefix(_, _)
QualifyingPrefix(listing, k) ==
    IF k = 0 THEN <<>>
    ELSE LET rest == QualifyingPrefix(listing, k - 1) IN
         IF HasCsvSuffix(listing[k]) THEN Append(rest, listing[k]) ELSE rest

Range(f) == {f[i] : i \in DOMAIN f}

AllQualifyingRows == RowsOf(dir, Qualifying(DOMAIN dir))

-----------------------------------------------------------------------------
(* Ingestion: SpecIngest *)

\* C1: when a run over a table that held no row ends successfully, the table
\* holds exactly the rows of the files whose names end in ".csv", each once,
\* whatever order the listing came in.
C1_AllRowsExactlyOnce ==
    (ipc = "done" /\ before.rows = EmptyBag) =>
        /\ daily_reports.rows = AllQualifyingRows
        /\ BagCardinality(daily_reports.rows) =
               Sum([i \in 1..Len(writes) |-> Len(dir[writes[i]].rows)])
        /\ Range(writes) = Qualifying(DOMAIN dir)

C1_Witness ==
    /\ ipc = "done"
    /\ before.rows = EmptyBag
    /\ Len(writes) = 2
    /\ \A n \in Range(writes) : dir[n].rows # <<>>
    /\ files[1] = <<".", "c", "s", "v">>

\* C2: an entry whose name does not end in ".csv" is never read and never
\* written, and a run that ends leaves the table as it would without the entry.
C2_NonCsvIgnored ==
    /\ \A n \in Range(reads) \cup Range(writes) : HasCsvSuffix(n)
    /\ ipc = "done" =>
         \A e \in DOMAIN dir \ Qualifying(DOMAIN dir) :
            daily_reports.rows =
                before.rows (+) RowsOf(dir, Qualifying(DOMAIN dir \ {e}))

C2_Witness ==
    /\ ipc = "done"
    /\ \E e \in DOMAIN dir : ~HasCsvSuffix(e) /\ dir[e].tabular /\ dir[e].rows # <<>>
    /\ \E q \in Range(writes) : dir[q].rows # <<>>

\* C3: a run over a directory that does not exist ends in failure, having
\* read and written nothing, with the table as it was.
C3_MissingDirectoryFails ==
    (~dirExists /\ ipc # "idle") =>
        /\ ipc = "failed"
        /\ daily_reports = initial
        /\ reads = <<>>
        /\ writes = <<>>
        /\ \A k \in DOMAIN outcomes : outcomes[k] = "error"

C3_Witness ==
    /\ ~dirExists
    /\ ipc = "failed"
    /\ initial.rows # EmptyBag

\* C4: after two successful runs over the same directory, from a table that
\* held no row, every row of the qualifying files is in the table twice.
C4_SecondRunDoubles ==
    (ipc = "done" /\ outcomes = <<"ok">> /\ initial.rows = EmptyBag) =>
        /\ daily_reports.rows = AllQualifyingRows (+) AllQualifyingRows
        /\ BagCardinality(daily_reports.rows) = 2 * BagCardinality(AllQualifyingRows)

C4_Witness ==
    /\ ipc = "done"
    /\ outcomes = <<"ok">>
    /\ initial.rows = EmptyBag
    /\ BagCardinality(AllQualifyingRows) >= 2

\* C5: a run that fails on a file stops there: that file is the last one read,
\* the qualifying files before it are written and their rows are in the table,
\* nothing later is read or written; and no run that met an unparseable
\* qualifying file ends successfully.
C5_AbortsAtFailingFile ==
    /\ (ipc = "failed" /\ dirExists) =>
          /\ idx \in 1..Len(files)
          /\ HasCsvSuffix(files[idx])
          /\ reads = QualifyingPrefix(files, idx)
          /\ writes = QualifyingPrefix(files, idx - 1)
          /\ daily_reports.rows = before.rows (+) RowsOf(dir, Range(writes))
    /\ ipc = "done" =>
          /\ \A n \in Qualifying(DOMAIN dir) : dir[n].tabular
          /\ writes = QualifyingPrefix(files, Len(files))

C5_Witness ==
    /\ ipc = "failed"
    /\ idx = 1
    /\ Len(files) = 2
    /\ HasCsvSuffix(files[2])
    /\ dir[files[2]].tabular
    /\ dir[files[2]].rows # <<>>
    /\ before.rows # EmptyBag
    /\ outcomes = <<"ok">>

\* C6: no step removes or changes a row of daily_reports, nor drops the table.
C6_AppendOnly ==
    [][ /\ daily_reports.rows \sqsubseteq daily_reports'.rows
        /\ daily_reports.exists => daily_reports'.exists ]_vars

C6_Witness ==
    /\ before.rows # EmptyBag
    /\ BagCardinality(daily_reports.rows) > BagCardinality(before.rows)
    /\ ipc = "failed"

-----------------------------------------------------------------------------
(* Both scripts: Spec *)

\* C7: no step of the correlation script changes a table.
C7_CorrelationReadOnly ==
    [][ cpc' # cpc =>
          /\ cleaned_data' = cleaned_data
          /\ daily_reports' = daily_reports ]_vars

C7_Witness ==
    /\ cpc = "done"
    /\ cleaned_data.rows # EmptyBag
    /\ daily_reports.rows # EmptyBag

PartiallyIngested(progress) == progress.written > 0 /\ progress.pending > 0

\* C8 as claimed: a query that runs when ingestion has appended some but not
\* all of its qualifying files reads the rows of that partially ingested table.
C8_ReadsPartiallyIngestedTable ==
    [][ (cpc = "idle" /\ cpc' = "queried" /\ PartiallyIngested(Progress)) =>
            SeqToBag(df') = daily_reports.rows ]_vars

\* C8 as amended: the query may run at any point of an ingestion, but what it
\* reads is the content of cleaned_data, which ingestion leaves as it was.
C8_ReadsCleanedDataOnly ==
    cpc \in {"queried", "done"} =>
        /\ SeqToBag(df) = cleaned_data.rows
        /\ cleaned_data \in CleanedAtStart

C8_Witness ==
    /\ cpc = "done"
    /\ PartiallyIngested(observed[1])
    /\ ipc = "done"

-----------------------------------------------------------------------------
(* Correlation: SpecCorr *)

NonConstant(x) == \E i, j \in DOMAIN x : x[i] # x[j]

Matrix == correlation[1]

\* C9: over at least two rows with neither field constant, the result is a
\* matrix over (confirmed, deaths) with 1.0 on the diagonal and equal
\* off-diagonal entries.
C9_UnitDiagonalSymmetric ==
    ( /\ cpc = "done"
      /\ Len(df) >= 2
      /\ NonConstant(Column(df, "confirmed"))
      /\ NonConstant(Column(df, "deaths")) ) =>
        /\ DOMAIN Matrix = Fields
        /\ \A a \in Fields : DOMAIN Matrix[a] = Fields
        /\ Matrix["confirmed"]["confirmed"] = One
        /\ Matrix["deaths"]["deaths"] = One
        /\ ~Matrix["confirmed"]["deaths"].nan
        /\ Matrix["confirmed"]["deaths"] = Matrix["deaths"]["confirmed"]

C9_Witness ==
    /\ cpc = "done"
    /\ Len(df) >= 3
    /\ NonConstant(Column(df, "confirmed"))
    /\ NonConstant(Column(df, "deaths"))
    /\ Matrix["confirmed"]["deaths"].sign = -1
    /\ Matrix["confirmed"]["deaths"].den > 1

\* C10: with confirmed = [1,2,3,4] and deaths = [2,4,6,8] in cleaned_data, in
\* whatever order the rows come back, both off-diagonal entries are 1.0.
C10_ExampleCoefficientIsOne ==
    (cpc = "done" /\ cleaned_data.rows = SeqToBag(Example)) =>
        /\ Matrix["confirmed"]["deaths"] = One
        /\ Matrix["deaths"]["confirmed"] = One

C10_Witness ==
    /\ cpc = "done"
    /\ cleaned_data.rows = SeqToBag(Example)
    /\ df # Example

=============================================================================
